---- MODULE Spec2Model ----
(***************************************************************************)
(* Kuber AI gold workflow: the users table, the purchases ledger and the   *)
(* four HTTP handlers of kuber_ai_gold_workflow.py.                        *)
(*                                                                         *)
(* Every helper of the source opens its own sqlite3 connection, so every   *)
(* helper call is one database operation of its own: a handler that calls  *)
(* several helpers is a sequence of steps, and the steps of handlers that  *)
(* run in different workers interleave.                                    *)
(*                                                                         *)
(* Units: balance and amount_inr are whole rupees, gold_grams and grams    *)
(* are micrograms (round(x, 6) keeps six decimals of a gram).  Both        *)
(* columns are REAL and the request fields are Python floats, so every     *)
(* arithmetic result is rounded to the significand of the float format     *)
(* (Float below).                                                          *)
(***************************************************************************)
EXTENDS Integers, Sequences, FiniteSets, TLC

VARIABLES
    users,      \* table users: sequence of rows, in insertion order
    purchases,  \* table purchases: sequence of rows, in insertion order
    pc,         \* per worker: the place of the request it is serving
    local,      \* per worker: the request's fields and the handler's locals
    out,        \* the response sent by the latest step (NoResp: none sent)
    deposits,   \* history: initial_deposit of each create-user, by user_id
    completed   \* history: the successful purchase responses, in order

vars == <<users, purchases, pc, local, out, deposits, completed>>

----------------------------------------------------------------------------
(* Bounds of the model *)

MaxUsers == 2
MaxPurchases == 2
\* significand width of the float format; binary64 has 53 bits, the model
\* keeps the same rounding rule on a narrower significand
Prec == 20

(* Program constants *)

GOLD_RATE_PER_GRAM == 6000
MicroPerGram == 1000000

\* the server threads that serve requests, two at a time
Workers == {"w1", "w2"}

RECURSIVE Pow2(_)
Pow2(n) == IF n = 0 THEN 1 ELSE 2 * Pow2(n - 1)

\* a deposit so large that the floats next to it are 32 and 64 rupees apart
BigDeposit == Pow2(Prec + 6)

Names == {"asha"}
Deposits == {-50, 100, BigDeposit}
Amounts == {-10, 0, 60}
UserIds == 1..(MaxUsers + 1)
\* utcnow().isoformat(): no handler reads it back, one reading stands for all
Timestamps == {"t"}

----------------------------------------------------------------------------
(* Floating point: REAL columns and Python floats *)

Abs(x) == IF x < 0 THEN -x ELSE x

RECURSIVE BitLength(_)
BitLength(n) == IF n = 0 THEN 0 ELSE 1 + BitLength(n \div 2)

\* n / d rounded to the nearest integer, ties to even (n >= 0, d > 0)
RoundHalfEven(n, d) ==
    LET q == n \div d
        r == n % d
    IN  IF 2 * r < d THEN q
        ELSE IF 2 * r > d THEN q + 1
        ELSE IF q % 2 = 0 THEN q ELSE q + 1

\* the float nearest to the exact value x (round to nearest, ties to even)
Float(x) ==
    LET a == Abs(x)
        e == BitLength(a) - Prec
    IN  IF e <= 0 THEN x
        ELSE LET s == Pow2(e)
                 m == RoundHalfEven(a, s)
             IN  IF x < 0 THEN -(m * s) ELSE m * s

FSub(x, y) == Float(x - y)
FAdd(x, y) == Float(x + y)

\* round(amount_inr / GOLD_RATE_PER_GRAM, 6), in micrograms
Grams(amount_inr) ==
    Float(RoundHalfEven(amount_inr * MicroPerGram, GOLD_RATE_PER_GRAM))

----------------------------------------------------------------------------
(* Query classifier *)

Lower(c) ==
    CASE c = "B" -> "b" [] c = "G" -> "g" [] c = "O" -> "o"
      [] c = "L" -> "l" [] c = "D" -> "d" [] c = "S" -> "s"
      [] OTHER -> c

text_lower(text) == [i \in 1..Len(text) |-> Lower(text[i])]

GOLD_KEYWORDS == <<
    <<"g","o","l","d">>,
    <<"d","i","g","i","t","a","l"," ","g","o","l","d">>,
    <<"i","n","v","e","s","t"," ","i","n"," ","g","o","l","d">>,
    <<"b","u","y"," ","g","o","l","d">>,
    <<"g","o","l","d"," ","i","n","v","e","s","t","m","e","n","t">>,
    <<"i","s"," ","g","o","l","d"," ","s","a","f","e">>,
    <<"s","h","o","u","l","d"," ","i"," ","b","u","y"," ","g","o","l","d">> >>

\* Python's `kw in text`
Contains(text, kw) ==
    \E i \in 0..(Len(text) - Len(kw)) :
        \A j \in 1..Len(kw) : text[i + j] = kw[j]

query_is_about_gold(text) ==
    \E k \in 1..Len(GOLD_KEYWORDS) : Contains(text_lower(text), GOLD_KEYWORDS[k])

Queries == {
    <<"S","h","o","u","l","d"," ","I"," ","b","u","y"," ","G","O","L","D","?">>,
    <<"W","h","a","t","'","s"," ","t","h","e"," ","w","e","a","t","h","e","r","?">> }

\* query_is_about_gold on the queries of the model, computed once
is_gold_query == [query \in Queries |-> query_is_about_gold(query)]

----------------------------------------------------------------------------
(* Database helpers.  An Optional row is a sequence of at most one row.    *)

\* SELECT * FROM users WHERE user_id = ?  ... fetchone()
get_user(user_id) ==
    LET rows == SelectSeq(users, LAMBDA r : r.user_id = user_id)
    IN  IF rows = <<>> THEN <<>> ELSE <<rows[1]>>

Reverse(s) == [i \in 1..Len(s) |-> s[Len(s) + 1 - i]]

\* faulty variant: the listing without ORDER BY purchase_id DESC
get_purchases_for_user_Unordered(user_id) ==
    SelectSeq(purchases, LAMBDA r : r.user_id = user_id)

\* SELECT * FROM purchases WHERE user_id = ? ORDER BY purchase_id DESC
\* (rows are kept in purchase_id order: AUTOINCREMENT, no delete)
get_purchases_for_user(user_id) ==
    Reverse(SelectSeq(purchases, LAMBDA r : r.user_id = user_id))

\* faulty variant: the UPDATE without its WHERE clause
UpdateUsers_AllRows(user_id, grams, amount_inr) ==
    [i \in 1..Len(users) |->
        [users[i] EXCEPT !.balance = FSub(@, amount_inr),
                         !.gold_grams = FAdd(@, grams)]]

\* variant that closes the race: ... WHERE user_id = ? AND balance >= ?
UpdateUsers_Conditional(user_id, grams, amount_inr) ==
    [i \in 1..Len(users) |->
        IF users[i].user_id = user_id /\ users[i].balance >= amount_inr
        THEN [users[i] EXCEPT !.balance = FSub(@, amount_inr),
                              !.gold_grams = FAdd(@, grams)]
        ELSE users[i]]

\* UPDATE users SET balance = balance - ?, gold_grams = gold_grams + ?
\*   WHERE user_id = ?
UpdateUsers(user_id, grams, amount_inr) ==
    [i \in 1..Len(users) |->
        IF users[i].user_id = user_id
        THEN [users[i] EXCEPT !.balance = FSub(@, amount_inr),
                              !.gold_grams = FAdd(@, grams)]
        ELSE users[i]]

\* INSERT INTO purchases (user_id, amount_inr, grams, timestamp)
InsertPurchase(user_id, amount_inr, grams, timestamp) ==
    Append(purchases,
           [purchase_id |-> Len(purchases) + 1, user_id |-> user_id,
            amount_inr |-> amount_inr, grams |-> grams,
            timestamp |-> timestamp])

----------------------------------------------------------------------------
NoLocal == [user_id |-> 0, amount_inr |-> 0, user |-> <<>>, grams |-> 0,
            updated_user |-> <<>>]
NoResp == [op |-> "none", status |-> 0, detail |-> "none"]

Init ==
    /\ users = <<>>
    /\ purchases = <<>>
    /\ pc = [w \in Workers |-> "idle"]
    /\ local = [w \in Workers |-> NoLocal]
    /\ out = NoResp
    /\ deposits = <<>>
    /\ completed = <<>>

\* POST /create-user
create_user(w, name, initial_deposit) ==
    LET user_id == Len(users) + 1 IN
    /\ pc[w] = "idle"
    /\ Len(users) < MaxUsers
    /\ users' = Append(users, [user_id |-> user_id, name |-> name,
                               balance |-> initial_deposit, gold_grams |-> 0])
    /\ deposits' = Append(deposits, initial_deposit)
    /\ out' = [op |-> "create_user", status |-> 200, detail |-> "success",
               user_id |-> user_id, name |-> name, balance |-> initial_deposit]
    /\ UNCHANGED <<purchases, pc, local, completed>>

\* GET /get-user/{user_id}: user = get_user(user_id), 404 when absent
get_user_endpoint(w, user_id) ==
    LET user == get_user(user_id) IN
    /\ pc[w] = "idle"
    /\ IF user = <<>>
       THEN /\ out' = [op |-> "get_user", status |-> 404,
                       detail |-> "User not found"]
            /\ UNCHANGED <<pc, local>>
       ELSE /\ local' = [local EXCEPT ![w] =
                            [NoLocal EXCEPT !.user_id = user_id, !.user = user]]
            /\ out' = NoResp
            /\ pc' = [pc EXCEPT ![w] = "get_user_list"]
    /\ UNCHANGED <<users, purchases, deposits, completed>>

\* GET /get-user/{user_id}: purchases = get_purchases_for_user(user_id), return
get_user_endpoint_list(w) ==
    /\ pc[w] = "get_user_list"
    /\ out' = [op |-> "get_user", status |-> 200, detail |-> "profile",
               user |-> local[w].user[1],
               purchases |-> get_purchases_for_user(local[w].user_id)]
    /\ local' = [local EXCEPT ![w] = NoLocal]
    /\ pc' = [pc EXCEPT ![w] = "idle"]
    /\ UNCHANGED <<users, purchases, deposits, completed>>

\* POST /gold-assistant
gold_assistant(w, user_id, query) ==
    LET user == get_user(user_id)
        is_gold == is_gold_query[query]
    IN
    /\ pc[w] = "idle"
    /\ out' = IF user = <<>>
              THEN [op |-> "gold_assistant", status |-> 404,
                    detail |-> "User not found"]
              ELSE IF ~is_gold
              THEN [op |-> "gold_assistant", status |-> 200,
                    detail |-> "redirect", is_gold_query |-> FALSE]
              ELSE [op |-> "gold_assistant", status |-> 200,
                    detail |-> "CANNED_FACTS", nudge |-> "nudge",
                    next_step |-> "/purchase-gold", is_gold_query |-> TRUE]
    /\ UNCHANGED <<users, purchases, pc, local, deposits, completed>>

\* the purchases that requests past the checks may still insert
InFlight == Cardinality({v \in Workers : pc[v] = "purchase_update"})

\* faulty variant: the amount check accepts amount_inr = 0
purchase_checks_ZeroAccepted(user, amount_inr) ==
    IF user = <<>> THEN "User not found"
    ELSE IF amount_inr < 0 THEN "Amount must be greater than 0"
    ELSE IF user[1].balance < amount_inr THEN "Insufficient balance"
    ELSE "ok"

\* faulty variant: the amount check made before the user check
purchase_checks_AmountFirst(user, amount_inr) ==
    IF amount_inr <= 0 THEN "Amount must be greater than 0"
    ELSE IF user = <<>> THEN "User not found"
    ELSE IF user[1].balance < amount_inr THEN "Insufficient balance"
    ELSE "ok"

\* POST /purchase-gold, the three checks in the order of the code
purchase_checks(user, amount_inr) ==
    IF user = <<>> THEN "User not found"
    ELSE IF amount_inr <= 0 THEN "Amount must be greater than 0"
    ELSE IF user[1].balance < amount_inr THEN "Insufficient balance"
    ELSE "ok"

\* POST /purchase-gold: user = get_user(...), the checks, grams
purchase_gold(w, user_id, amount_inr) ==
    LET user == get_user(user_id)
        failed == purchase_checks(user, amount_inr)
    IN
    /\ pc[w] = "idle"
    /\ IF failed = "User not found"
       THEN /\ out' = [op |-> "purchase_gold", status |-> 404, detail |-> failed]
            /\ UNCHANGED <<pc, local>>
       ELSE IF failed = "Amount must be greater than 0"
       THEN /\ out' = [op |-> "purchase_gold", status |-> 400, detail |-> failed]
            /\ UNCHANGED <<pc, local>>
       ELSE IF failed = "Insufficient balance"
       THEN /\ out' = [op |-> "purchase_gold", status |-> 400, detail |-> failed,
                       available |-> user[1].balance]
            /\ UNCHANGED <<pc, local>>
       ELSE /\ Len(purchases) + InFlight < MaxPurchases
            /\ local' = [local EXCEPT ![w] =
                            [NoLocal EXCEPT !.user_id = user_id,
                                            !.amount_inr = amount_inr,
                                            !.user = user,
                                            !.grams = Grams(amount_inr)]]
            /\ out' = NoResp
            /\ pc' = [pc EXCEPT ![w] = "purchase_update"]
    /\ UNCHANGED <<users, purchases, deposits, completed>>

\* faulty variant: the commit after the UPDATE, the INSERT lost
update_user_gold_and_balance_UpdateOnly(user_id, grams, amount_inr, timestamp) ==
    /\ users' = UpdateUsers(user_id, grams, amount_inr)
    /\ purchases' = purchases

\* one connection, UPDATE then INSERT, one commit
update_user_gold_and_balance(user_id, grams, amount_inr, timestamp) ==
    /\ users' = UpdateUsers(user_id, grams, amount_inr)
    /\ purchases' = InsertPurchase(user_id, amount_inr, grams, timestamp)

\* POST /purchase-gold: update_user_gold_and_balance(...)
purchase_gold_update(w, now) ==
    /\ pc[w] = "purchase_update"
    /\ update_user_gold_and_balance(local[w].user_id, local[w].grams,
                                    local[w].amount_inr, now)
    /\ out' = NoResp
    /\ pc' = [pc EXCEPT ![w] = "purchase_reread"]
    /\ UNCHANGED <<local, deposits, completed>>

\* POST /purchase-gold: updated_user = get_user(req.user_id)
purchase_gold_reread(w) ==
    /\ pc[w] = "purchase_reread"
    /\ local' = [local EXCEPT ![w].updated_user = get_user(local[w].user_id)]
    /\ out' = NoResp
    /\ pc' = [pc EXCEPT ![w] = "purchase_list"]
    /\ UNCHANGED <<users, purchases, deposits, completed>>

\* POST /purchase-gold: purchases = get_purchases_for_user(...), return
purchase_gold_return(w) ==
    /\ pc[w] = "purchase_list"
    /\ out' = [op |-> "purchase_gold", status |-> 200, detail |-> "success",
               purchase |-> [amount_inr |-> local[w].amount_inr,
                             grams |-> local[w].grams],
               updated_profile |-> local[w].updated_user[1],
               purchases |-> get_purchases_for_user(local[w].user_id)]
    /\ completed' = Append(completed, [user_id |-> local[w].user_id,
                                       amount_inr |-> local[w].amount_inr,
                                       grams |-> local[w].grams])
    /\ local' = [local EXCEPT ![w] = NoLocal]
    /\ pc' = [pc EXCEPT ![w] = "idle"]
    /\ UNCHANGED <<users, purchases, deposits>>

Step(w) ==
    \/ \E name \in Names, initial_deposit \in Deposits :
           create_user(w, name, initial_deposit)
    \/ \E user_id \in UserIds : get_user_endpoint(w, user_id)
    \/ get_user_endpoint_list(w)
    \/ \E user_id \in UserIds, query \in Queries : gold_assistant(w, user_id, query)
    \/ \E user_id \in UserIds, amount_inr \in Amounts :
           purchase_gold(w, user_id, amount_inr)
    \/ \E now \in Timestamps : purchase_gold_update(w, now)
    \/ purchase_gold_reread(w)
    \/ purchase_gold_return(w)

\* requests served concurrently: the steps of the workers interleave
Next == \E w \in Workers : Step(w)

Spec == Init /\ [][Next]_vars

\* requests served one at a time: a request starts when no other is in flight
NextSeq == \E w \in Workers : (\A v \in Workers \ {w} : pc[v] = "idle") /\ Step(w)

SpecSeq == Init /\ [][NextSeq]_vars
----------------------------------------------------------------------------
(* Properties *)

Exists(user_id) == get_user(user_id) # <<>>
Account(user_id) == get_user(user_id)[1]
AllIdle == \A w \in Workers : pc[w] = "idle"
RowsOf(user_id) == SelectSeq(purchases, LAMBDA r : r.user_id = user_id)
\* the step may be the first step of a purchase-gold request of worker w:
\* it passes the checks or it sends the response of a failed check
PurchaseRequested(w) ==
    /\ pc[w] = "idle"
    /\ \/ pc'[w] = "purchase_update"
       \/ out'.op = "purchase_gold" /\ out'.status # 200
\* the step in which worker w commits its UPDATE and INSERT
Commits(w) == pc[w] = "purchase_update" /\ pc'[w] = "purchase_reread"

\* C1: with requests served one at a time, every account's balance is >= 0
\* in every reachable state, from the moment create-user inserts it.
C1_BalanceNeverNegative ==
    \A i \in 1..Len(users) : users[i].balance >= 0

\* C3: a purchase-gold request for an existing account with amount_inr
\* greater than the balance answers 400 "Insufficient balance" with the
\* balance it read, and changes neither table.
C3_InsufficientBalance ==
    [][\A w \in Workers : PurchaseRequested(w) =>
          \A user_id \in UserIds, amount_inr \in Amounts :
             ( /\ Exists(user_id)
               /\ amount_inr > Account(user_id).balance
               /\ purchase_gold(w, user_id, amount_inr) )
             => /\ out'.status = 400
                /\ out'.detail = "Insufficient balance"
                /\ out'.available = Account(user_id).balance
                /\ UNCHANGED <<users, purchases>>]_vars

\* C4 as claimed: a purchase-gold request with amount_inr <= 0 answers 400
\* "Amount must be greater than 0" for every user_id, existing or not, and
\* changes neither table.
C4_InvalidAmountAlways ==
    [][\A w \in Workers : PurchaseRequested(w) =>
          \A user_id \in UserIds, amount_inr \in Amounts :
             (amount_inr <= 0 /\ purchase_gold(w, user_id, amount_inr))
             => /\ out'.status = 400
                /\ out'.detail = "Amount must be greater than 0"
                /\ UNCHANGED <<users, purchases>>]_vars

\* C4 as amended: a purchase-gold request with amount_inr <= 0 answers 400
\* "Amount must be greater than 0" when user_id resolves to an account and
\* 404 "User not found" when it does not; it changes neither table.
C4_InvalidAmountForExistingUser ==
    [][\A w \in Workers : PurchaseRequested(w) =>
          \A user_id \in UserIds, amount_inr \in Amounts :
             (amount_inr <= 0 /\ purchase_gold(w, user_id, amount_inr))
             => /\ out'.op = "purchase_gold"
                /\ IF Exists(user_id)
                   THEN /\ out'.status = 400
                        /\ out'.detail = "Amount must be greater than 0"
                   ELSE /\ out'.status = 404
                        /\ out'.detail = "User not found"
                /\ UNCHANGED <<users, purchases, pc>>]_vars

\* a purchase with amount_inr <= 0 on an existing account was just refused
C4_Witness ==
    /\ out.op = "purchase_gold"
    /\ out.detail = "Amount must be greater than 0"
    /\ users # <<>>

\* C5: a purchase-gold request whose user_id resolves to no account answers
\* 404 "User not found" for every amount_inr and changes neither table; and
\* every ledger row references a user_id of the users table.
C5_UserNotFound ==
    [][ /\ \A w \in Workers : PurchaseRequested(w) =>
              \A user_id \in UserIds, amount_inr \in Amounts :
                 (~Exists(user_id) /\ purchase_gold(w, user_id, amount_inr))
                 => /\ out'.op = "purchase_gold"
                    /\ out'.status = 404
                    /\ out'.detail = "User not found"
                    /\ UNCHANGED <<users, purchases, pc>>
        /\ \A i \in 1..Len(purchases') :
              \E k \in 1..Len(users') :
                  users'[k].user_id = purchases'[i].user_id ]_vars

\* a purchase for an unknown user_id was just refused, the ledger not empty
C5_Witness ==
    /\ out.op = "purchase_gold"
    /\ out.status = 404
    /\ purchases # <<>>

\* C2: for an existing account with balance b and holdings g and an amount
\* with 0 < amount_inr <= b, a purchase-gold request served on its own
\* passes the checks and returns 200, leaving balance exactly b - amount_inr
\* and gold_grams exactly g + round(amount_inr / rate, 6); the grams
\* credited are the grams of the new ledger row.
C2_PurchaseDebitsAndCredits ==
    [][\A w \in Workers :
          /\ PurchaseRequested(w) =>
                \A user_id \in UserIds, amount_inr \in Amounts :
                   ( /\ Exists(user_id)
                     /\ 0 < amount_inr
                     /\ amount_inr <= Account(user_id).balance
                     /\ purchase_gold(w, user_id, amount_inr) )
                   => /\ pc'[w] = "purchase_update"
                      /\ out'.status = 0
          /\ (pc[w] = "purchase_list" /\ pc'[w] = "idle")
             => LET b == local[w].user[1].balance
                    g == local[w].user[1].gold_grams
                    amount_inr == local[w].amount_inr
                    after == Account(local[w].user_id)
                    newest == get_purchases_for_user(local[w].user_id)[1]
                IN  /\ out'.status = 200
                    /\ out'.updated_profile = after
                    /\ after.balance = b - amount_inr
                    /\ newest.amount_inr = amount_inr
                    /\ newest.grams =
                         RoundHalfEven(amount_inr * MicroPerGram,
                                       GOLD_RATE_PER_GRAM)
                    /\ after.gold_grams = g + newest.grams
                    /\ out'.purchase.grams = newest.grams ]_vars

\* the purchases that returned 200 for a user, oldest first
CompletedFor(user_id) == SelectSeq(completed, LAMBDA c : c.user_id = user_id)

ListingMatches(user_id) ==
    LET listed == get_purchases_for_user(user_id)
        calls == CompletedFor(user_id)
        N == Len(calls)
    IN  /\ Len(listed) = N
        /\ \A i \in 1..N :
              /\ listed[i].user_id = user_id
              /\ listed[i].amount_inr = calls[N + 1 - i].amount_inr
              /\ listed[i].grams = calls[N + 1 - i].grams
              /\ i < N => listed[i].purchase_id > listed[i + 1].purchase_id

\* C6: the ledger is append-only: once N purchase-gold requests of a user
\* have succeeded (among failed purchases and requests of other users),
\* listing the user's purchases gives exactly N records, newest first
\* (strictly decreasing purchase_id), each with the amount_inr and grams of
\* its call; and no step changes or removes an existing ledger row.
C6_LedgerAppendOnly ==
    /\ [](AllIdle => \A user_id \in UserIds : ListingMatches(user_id))
    /\ [][ /\ Len(purchases') >= Len(purchases)
           /\ \A i \in 1..Len(purchases) : purchases'[i] = purchases[i] ]_vars

\* two purchases of one user have succeeded and the second has just returned
C6_Witness ==
    /\ AllIdle
    /\ \E u \in UserIds : Len(get_purchases_for_user(u)) = 2
    /\ out.op = "purchase_gold"
    /\ out.status = 200
    /\ Len(out.purchases) = 2

\* C7: a purchase is committed whole: every step leaves both tables alone,
\* or inserts one account, or is the commit of one purchase, which debits
\* the balance, credits gold_grams and appends the ledger row together.
C7_PurchaseCommitsWhole ==
    [][ \/ UNCHANGED <<users, purchases>>
        \/ /\ purchases' = purchases
           /\ Len(users') = Len(users) + 1
           /\ \A i \in 1..Len(users) : users'[i] = users[i]
           /\ users'[Len(users')].gold_grams = 0
        \/ \E w \in Workers :
              LET user_id == local[w].user_id
                  row == purchases'[Len(purchases')]
              IN  /\ Commits(w)
                  /\ Len(users') = Len(users)
                  /\ \A i \in 1..Len(users) :
                        IF users[i].user_id = user_id
                        THEN /\ users'[i].balance =
                                  FSub(users[i].balance, local[w].amount_inr)
                             /\ users'[i].gold_grams =
                                  FAdd(users[i].gold_grams, local[w].grams)
                        ELSE users'[i] = users[i]
                  /\ Len(purchases') = Len(purchases) + 1
                  /\ \A i \in 1..Len(purchases) : purchases'[i] = purchases[i]
                  /\ row.user_id = user_id
                  /\ row.amount_inr = local[w].amount_inr
                  /\ row.grams = local[w].grams ]_vars

\* a get-user request reads the account right after another request's commit
C7_Witness ==
    \E w, v \in Workers :
        /\ pc[w] = "purchase_reread"
        /\ pc[v] = "get_user_list"
        /\ local[v].user_id = local[w].user_id
        /\ local[v].user[1] = Account(local[w].user_id)
        /\ local[v].user[1] # local[w].user[1]

\* C8: the balance check and the debit are not isolated: the commit of a
\* purchase debits the balance as it then is, without checking it again, so
\* a request that passed the check against a balance another request has
\* debited since leaves the balance negative, with its ledger row inserted.
C8_CheckAndDebitNotIsolated ==
    [][\A w \in Workers :
          Commits(w) =>
             LET user_id == local[w].user_id
                 amount_inr == local[w].amount_inr
                 current == Account(user_id).balance
             IN  /\ 0 < amount_inr
                 /\ amount_inr <= local[w].user[1].balance
                 /\ Account(user_id)'.balance = FSub(current, amount_inr)
                 /\ Len(RowsOf(user_id)') = Len(RowsOf(user_id)) + 1
                 /\ current < amount_inr => Account(user_id)'.balance < 0 ]_vars

\* two requests read the same balance b, each with 0 < amount_inr <= b and
\* the amounts summing to more than b; both committed: the balance is
\* negative and the account has two ledger rows
C8_Witness ==
    \E w, v \in Workers :
        /\ w # v
        /\ pc[w] \in {"purchase_reread", "purchase_list"}
        /\ pc[v] \in {"purchase_reread", "purchase_list"}
        /\ local[w].user_id = local[v].user_id
        /\ local[w].user[1].balance = local[v].user[1].balance
        /\ local[w].amount_inr <= local[w].user[1].balance
        /\ local[v].amount_inr <= local[v].user[1].balance
        /\ local[w].amount_inr + local[v].amount_inr > local[w].user[1].balance
        /\ Account(local[w].user_id).balance < 0
        /\ Len(RowsOf(local[w].user_id)) = 2

\* C9: account rows are mutated only by successful purchases: gold-assistant
\* and get-user requests change no account row and no ledger row, whatever
\* the query and whether or not the user exists; create-user changes no
\* existing account row and no ledger row; and no step deletes an account
\* or changes its user_id or name.
C9_OnlyPurchasesMutateAccounts ==
    [][ /\ out'.op \in {"gold_assistant", "get_user"}
           => UNCHANGED <<users, purchases>>
        /\ (\E w \in Workers : pc'[w] = "get_user_list" /\ pc[w] = "idle")
           => UNCHANGED <<users, purchases>>
        /\ out'.op = "create_user"
           => /\ purchases' = purchases
              /\ \A i \in 1..Len(users) : users'[i] = users[i]
        /\ Len(users') >= Len(users)
        /\ \A i \in 1..Len(users) :
              /\ users'[i].user_id = users[i].user_id
              /\ users'[i].name = users[i].name
              /\ users'[i] # users[i]
                 => \E w \in Workers :
                       Commits(w) /\ local[w].user_id = users[i].user_id ]_vars

\* a gold-related query of an existing user was just answered, after purchases
\* and beside a second account
C9_Witness ==
    /\ out.op = "gold_assistant"
    /\ out.status = 200
    /\ out.is_gold_query
    /\ Len(users) = 2
    /\ purchases # <<>>

RECURSIVE SumAmounts(_)
SumAmounts(rows) ==
    IF rows = <<>> THEN 0 ELSE Head(rows).amount_inr + SumAmounts(Tail(rows))

RECURSIVE SumGrams(_)
SumGrams(rows) ==
    IF rows = <<>> THEN 0 ELSE Head(rows).grams + SumGrams(Tail(rows))

GoldNeverDecreases ==
    \A i \in 1..Len(users) : users'[i].gold_grams >= users[i].gold_grams

\* C10: under every interleaving, in every committed state and for every
\* user, gold_grams is the sum of grams over the user's ledger rows and the
\* initial deposit minus the balance is the sum of amount_inr over them;
\* gold_grams is non-negative and never decreases.
C10_TotalsEqualLedgerSums ==
    /\ [](\A i \in 1..Len(users) :
              LET rows == RowsOf(users[i].user_id) IN
              /\ users[i].gold_grams = SumGrams(rows)
              /\ deposits[i] - users[i].balance = SumAmounts(rows)
              /\ users[i].gold_grams >= 0)
    /\ [][GoldNeverDecreases]_vars
====
